---- MODULE Spec2Model ----
(***************************************************************************)
(* A model of ggcache: the in-memory store (cache.go) with its RWMutex and *)
(* its per-Set expiry goroutines, the binary wire codec (proto), and the   *)
(* example server (example/server.go) with its connections, its command    *)
(* handlers, its members and its fan-out of Set.                           *)
(***************************************************************************)
EXTENDS Integers, Sequences, FiniteSets, Bags, TLC

(***************************************************************************)
(* Bounds of the store model.                                              *)
(***************************************************************************)
Keys == {"k1", "k2"}
Vals == {"v1", "v2"}
Callers == {"a", "b"}
\* Set is called with a ttl in 0..MaxTTL (0: no expiry)
MaxTTL == 2
\* at most MaxTimers expiry goroutines are alive at once
MaxTimers == 2

TTLs == 0..MaxTTL

\* the map has no entry for the key
Absent == "absent"
\* Get's error, "key (%s) not found"
NotFound == "notfound"
\* a nil error
Nil == "nil"
True == "true"
False == "false"

VARIABLES
    data,     \* Cache.data: the map, key -> value or Absent
    lock,     \* Cache.lock: [w |-> a writer holds it, r |-> number of readers]
    pc,       \* per caller: "idle", or "ret" (the operation's body ran, the
              \* deferred unlock has not)
    op,       \* per caller: the operation in progress
    ret,      \* per caller: the value the operation in progress returns
    timers,   \* the expiry goroutines Set launched (a bag), each with its key
              \* and the time left until its time.After(ttl) delivers
    hist,     \* history, per key: what last happened to the key
    msg,      \* codec: the command or response handed to the encoder
    tail,     \* codec: the bytes that follow its frame on the stream
    wire,     \* codec: the bytes on the stream, not yet read
    dec,      \* codec: what the decoder returned
    conns,    \* server: per connection, its state and its two streams
    members,  \* server: Server.members, per connection the number of
              \* *client.Client map keys that wrap it
    handlers, \* server: the handleCommand goroutines alive (a bag)
    fans,     \* server: the fan-out goroutines of handleSetCommand (a bag)
    crashed,  \* server: the process died of a panic
    sends,    \* the number of writes and closes the remote ends have done
    start     \* server: ServerOpts, and where Start and dialLeader are

store == <<data, lock, pc, op, ret, timers, hist>>
codec == <<msg, tail, wire, dec>>
srv == <<conns, members, handlers, fans, crashed, sends, start>>
vars == <<data, lock, pc, op, ret, timers, hist, msg, tail, wire, dec,
          conns, members, handlers, fans, crashed, sends, start>>

NoOp == [kind |-> "none", key |-> "k1"]
NoHist == [kind |-> "none", value |-> "v1", prev |-> Absent]
NoMsg == [kind |-> "none"]
NoDec == [err |-> "none"]

(***************************************************************************)
(* sync.RWMutex as Cache uses it.                                          *)
(***************************************************************************)
\* a faulty Lock, which does not wait for the readers to leave
CanLock_IgnoresReaders(l) == ~l.w
CanLock(l) == ~l.w /\ l.r = 0
CanRLock(l) == ~l.w
Lock(l) == [l EXCEPT !.w = TRUE]
Unlock(l) == [l EXCEPT !.w = FALSE]
RLock(l) == [l EXCEPT !.r = @ + 1]
RUnlock(l) == [l EXCEPT !.r = @ - 1]

(***************************************************************************)
(* The map operations of Cache.                                            *)
(***************************************************************************)
\* val, ok := c.data[keyStr]; not ok: the error
MapGet(d, k) == IF d[k] = Absent THEN NotFound ELSE d[k]
\* _, ok := c.data[string(key)]
MapHas(d, k) == IF d[k] = Absent THEN False ELSE True
\* a faulty store, which keeps the value of a key that is present
MapSet_KeepsOld(d, k, v) == IF d[k] = Absent THEN [d EXCEPT ![k] = v] ELSE d
\* a faulty store, which replaces the map by one that holds the new entry only
MapSet_FreshMap(d, k, v) == [j \in DOMAIN d |-> IF j = k THEN v ELSE Absent]
\* c.data[keyStr] = value
MapSet(d, k, v) == [d EXCEPT ![k] = v]
\* a faulty delete, which empties the map
MapDelete_Clears(d, k) == [j \in DOMAIN d |-> Absent]
\* delete(c.data, keyStr)
MapDelete(d, k) == [d EXCEPT ![k] = Absent]

(***************************************************************************)
(* The expiry goroutines. A goroutine is [st, key, left, cur]: st is       *)
(* "sleep" (in <-time.After(ttl), left > 0 units to go), "fired" (woken,   *)
(* going for the Lock) or "del" (deleted the key, holds the Lock). cur is  *)
(* history: no Set on the key took effect since the one that launched it.  *)
(***************************************************************************)
One(t) == SetToBag({t})

\* the bag b with each goroutine t of s replaced by f[t]
RECURSIVE MapTimers(_, _, _)
MapTimers(f, b, s) ==
    IF s = {} THEN EmptyBag
    ELSE LET t == CHOOSE x \in s : TRUE
         IN  [x \in {f[t]} |-> b[t]] (+) MapTimers(f, b, s \ {t})

Outdate(ts, k) ==
    MapTimers([t \in DOMAIN ts |-> IF t.key = k THEN [t EXCEPT !.cur = FALSE] ELSE t],
              ts, DOMAIN ts)

\* if ttl > 0 { go func() { <-time.After(ttl) ... }() }
Spawn(ts, k, ttl) ==
    IF ttl > 0
    THEN Outdate(ts, k) (+) One([st |-> "sleep", key |-> k, left |-> ttl, cur |-> TRUE])
    ELSE Outdate(ts, k)

(***************************************************************************)
(* History of a key, kept for the statements only: the last of its sets,   *)
(* deletes and removals by a goroutine. kind is "set", "delete" (of a key  *)
(* that was present), "delete0" (of an absent key), "expire" (removed by   *)
(* the goroutine of the set that stored it) or "stale" (stored by a set    *)
(* and removed by the goroutine of an older set); prev is the value of the *)
(* set just before, when that one had ttl = 0.                             *)
(***************************************************************************)
Timed(k) == \E t \in DOMAIN timers : t.key = k /\ t.cur
PrevOf(h, k) == IF h.kind = "set" /\ ~Timed(k) THEN h.value ELSE Absent
HistSet(h, k, v) == [kind |-> "set", value |-> v, prev |-> PrevOf(h, k)]
HistDelete(h, was) ==
    [NoHist EXCEPT !.kind = IF was = Absent THEN "delete0" ELSE "delete"]
HistExpire(h, t) ==
    IF h.kind # "set" THEN h
    ELSE IF t.cur THEN [NoHist EXCEPT !.kind = "expire"]
    ELSE [h EXCEPT !.kind = "stale", !.prev = Absent]

\* the server's connections, in the order Accept hands them out
Conns == {"c1", "c2"}
AcceptOrder == <<"c1", "c2">>

\* a connection not yet made: no byte to read (in), none held by a decoder
\* (buf), no frame written (out, the frames of the Write calls), no
\* forwarded Set that the remote end has still to answer (owed)
NoConn ==
    [st |-> "free", rcl |-> FALSE, in |-> <<>>, buf |-> <<>>, out |-> <<>>,
     owed |-> 0]

\* ServerOpts, with Start at its first statement: at is "start", then
\* "dial" (dialLeader at net.Dial), "join" (at its binary.Write, on conn),
\* "loop" (in its handleConn), "failed" (it returned an error), or "listen"
\* (there is no dialLeader goroutine)
Started(isLeader, leaderAddr) ==
    [IsLeader |-> isLeader, LeaderAddr |-> leaderAddr, at |-> "start",
     conn |-> "none"]
\* a leader that listens
Listening == [Started(TRUE, "") EXCEPT !.at = "listen"]

\* NewServer: no connection, no member, no goroutine
NoPeers ==
    /\ conns = [c \in Conns |-> NoConn]
    /\ members = [c \in Conns |-> 0]
    /\ handlers = EmptyBag
    /\ fans = EmptyBag
    /\ crashed = FALSE
    /\ sends = 0

\* no server runs, or a leader at its accept loop
ServerIdle == NoPeers /\ start = Listening

StoreInit ==
    /\ data = [k \in Keys |-> Absent]
    /\ lock = [w |-> FALSE, r |-> 0]
    /\ pc = [c \in Callers |-> "idle"]
    /\ op = [c \in Callers |-> NoOp]
    /\ ret = [c \in Callers |-> Nil]
    /\ timers = EmptyBag
    /\ hist = [k \in Keys |-> NoHist]

\* the store alone: nothing is on the wire
Init ==
    /\ StoreInit
    /\ msg = NoMsg /\ tail = <<>> /\ wire = <<>> /\ dec = NoDec
    /\ ServerIdle

(***************************************************************************)
(* Cache.Get: RLock, look the key up, return the value or the error; the   *)
(* deferred RUnlock runs at Return.                                        *)
(***************************************************************************)
Get(c, k) ==
    /\ pc[c] = "idle"
    /\ CanRLock(lock)
    /\ lock' = RLock(lock)
    /\ pc' = [pc EXCEPT ![c] = "ret"]
    /\ op' = [op EXCEPT ![c] = [NoOp EXCEPT !.kind = "get", !.key = k]]
    /\ ret' = [ret EXCEPT ![c] = MapGet(data, k)]
    /\ UNCHANGED <<data, timers, hist, msg, tail, wire, dec, srv>>

(***************************************************************************)
(* Cache.Has: RLock, report whether the key is in the map.                 *)
(***************************************************************************)
Has(c, k) ==
    /\ pc[c] = "idle"
    /\ CanRLock(lock)
    /\ lock' = RLock(lock)
    /\ pc' = [pc EXCEPT ![c] = "ret"]
    /\ op' = [op EXCEPT ![c] = [NoOp EXCEPT !.kind = "has", !.key = k]]
    /\ ret' = [ret EXCEPT ![c] = MapHas(data, k)]
    /\ UNCHANGED <<data, timers, hist, msg, tail, wire, dec, srv>>

(***************************************************************************)
(* Cache.Set: Lock, store the value, launch the expiry goroutine when      *)
(* ttl > 0, return nil.                                                    *)
(***************************************************************************)
Set(c, k, v, ttl) ==
    /\ pc[c] = "idle"
    /\ CanLock(lock)
    /\ ttl > 0 => BagCardinality(timers) < MaxTimers
    /\ lock' = Lock(lock)
    /\ data' = MapSet(data, k, v)
    /\ timers' = Spawn(timers, k, ttl)
    /\ pc' = [pc EXCEPT ![c] = "ret"]
    /\ op' = [op EXCEPT ![c] = [NoOp EXCEPT !.kind = "set", !.key = k]]
    /\ ret' = [ret EXCEPT ![c] = Nil]
    /\ hist' = [hist EXCEPT ![k] = HistSet(@, k, v)]
    /\ UNCHANGED <<codec, srv>>

(***************************************************************************)
(* Cache.Delete: Lock, delete the key, return nil.                         *)
(***************************************************************************)
Delete(c, k) ==
    /\ pc[c] = "idle"
    /\ CanLock(lock)
    /\ lock' = Lock(lock)
    /\ data' = MapDelete(data, k)
    /\ pc' = [pc EXCEPT ![c] = "ret"]
    /\ op' = [op EXCEPT ![c] = [NoOp EXCEPT !.kind = "delete", !.key = k]]
    /\ ret' = [ret EXCEPT ![c] = Nil]
    /\ hist' = [hist EXCEPT ![k] = HistDelete(@, data[k])]
    /\ UNCHANGED <<timers, msg, tail, wire, dec, srv>>

IsWrite(o) == o.kind \in {"set", "delete"}

(***************************************************************************)
(* The return of an operation: its deferred Unlock / RUnlock.              *)
(***************************************************************************)
Return(c) ==
    /\ pc[c] = "ret"
    /\ lock' = IF IsWrite(op[c]) THEN Unlock(lock) ELSE RUnlock(lock)
    /\ pc' = [pc EXCEPT ![c] = "idle"]
    /\ op' = [op EXCEPT ![c] = NoOp]
    /\ ret' = [ret EXCEPT ![c] = Nil]
    /\ UNCHANGED <<data, timers, hist, msg, tail, wire, dec, srv>>

(***************************************************************************)
(* The expiry goroutine of Set: once its ttl has elapsed it takes the      *)
(* Lock and deletes the key, whatever the key holds by then; its deferred  *)
(* Unlock ends it.                                                         *)
(***************************************************************************)
Fired(t) == t.st = "fired"

Expire(t) ==
    /\ Fired(t)
    /\ CanLock(lock)
    /\ lock' = Lock(lock)
    /\ data' = MapDelete(data, t.key)
    /\ timers' = (timers (-) One(t)) (+) One([t EXCEPT !.st = "del"])
    /\ hist' = [hist EXCEPT ![t.key] = HistExpire(@, t)]
    /\ UNCHANGED <<pc, op, ret, msg, tail, wire, dec, srv>>

ExpireDone(t) ==
    /\ t.st = "del"
    /\ lock' = Unlock(lock)
    /\ timers' = timers (-) One(t)
    /\ UNCHANGED <<data, pc, op, ret, hist, msg, tail, wire, dec, srv>>

(***************************************************************************)
(* Time passes, by one unit: time.After wakes the sleeping goroutines      *)
(* whose ttl has elapsed.                                                  *)
(***************************************************************************)
Sleep(t) ==
    IF t.st # "sleep" THEN t
    ELSE IF t.left > 1 THEN [t EXCEPT !.left = @ - 1]
    ELSE [t EXCEPT !.st = "fired", !.left = 0]

Tick ==
    /\ timers' = MapTimers([t \in DOMAIN timers |-> Sleep(t)], timers, DOMAIN timers)
    /\ UNCHANGED <<data, lock, pc, op, ret, hist, msg, tail, wire, dec, srv>>

Next ==
    \/ \E c \in Callers, k \in Keys : Get(c, k)
    \/ \E c \in Callers, k \in Keys : Has(c, k)
    \/ \E c \in Callers, k \in Keys, v \in Vals, ttl \in TTLs : Set(c, k, v, ttl)
    \/ \E c \in Callers, k \in Keys : Delete(c, k)
    \/ \E c \in Callers : Return(c)
    \/ \E t \in DOMAIN timers : Expire(t)
    \/ \E t \in DOMAIN timers : ExpireDone(t)
    \/ Tick

Spec == Init /\ [][Next]_vars

(***************************************************************************)
(* The wire codec (proto). A stream is the sequence of the bytes not yet   *)
(* read; a byte is a number in 0..255.                                     *)
(***************************************************************************)
\* bounds of the codec model: keys and values of up to MaxLen bytes
MaxLen == 2
ByteVals == {0, 1, 255}
TTLVals == {(-2147483647) - 1, -1, 0, 2, 256, 2147483647}
Tails == {<<>>, <<2>>, <<1, 0>>}

\* type Status byte, iota
StatusNone == 0
StatusOK == 1
StatusError == 2
StatusKeyNotFound == 3
Statuses == {StatusNone, StatusOK, StatusError, StatusKeyNotFound}
\* type Command byte, iota
CmdNonce == 0
CmdSet == 1
CmdGet == 2
CmdDel == 3
CmdJoin == 4

BytesUpTo(n) == UNION {[1..m -> ByteVals] : m \in 0..n}
Zeros(n) == [i \in 1..n |-> 0]

\* int32(x) of an int x: the low 32 bits; the numbers here are within the
\* int32 range already, where the conversion changes nothing
ToInt32(x) == x

\* binary.Write(buf, binary.LittleEndian, int32): the 32 bits of the two's
\* complement, low byte first
Low31(x) == IF x >= 0 THEN x ELSE (x + 2147483647) + 1
PutInt32(x) ==
    LET m == Low31(x)
    IN  <<m % 256, (m \div 256) % 256, (m \div 65536) % 256,
          (m \div 16777216) + (IF x < 0 THEN 128 ELSE 0)>>

\* a faulty reader, which drops the sign bit
Int32Of_NoSign(b) ==
    b[1] + 256 * b[2] + 65536 * b[3] + 16777216 * (b[4] % 128)
\* the int32 of four bytes, low byte first
Int32Of(b) ==
    LET m == b[1] + 256 * b[2] + 65536 * b[3] + 16777216 * (b[4] % 128)
    IN  IF b[4] >= 128 THEN (m - 2147483647) - 1 ELSE m

\* io.ReadFull of n bytes: all of them, or an error (io.EOF when the stream
\* is at its end, io.ErrUnexpectedEOF when it ends within the n bytes) with
\* what there was consumed
ReadFull(s, n) ==
    IF Len(s) >= n
    THEN [err |-> Nil, bytes |-> SubSeq(s, 1, n), rest |-> SubSeq(s, n + 1, Len(s))]
    ELSE [err |-> IF Len(s) = 0 THEN "EOF" ELSE "ErrUnexpectedEOF",
          bytes |-> <<>>, rest |-> <<>>]

\* binary.Read(r, binary.LittleEndian, &x) of a byte-sized x: on an error x
\* keeps its zero value
ReadByte(s) ==
    LET r == ReadFull(s, 1)
    IN  [err |-> r.err, val |-> IF r.err = Nil THEN r.bytes[1] ELSE 0, rest |-> r.rest]

\* binary.Read(r, binary.LittleEndian, &x) of an int32 x
ReadInt32(s) ==
    LET r == ReadFull(s, 4)
    IN  [err |-> r.err, val |-> IF r.err = Nil THEN Int32Of(r.bytes) ELSE 0,
         rest |-> r.rest]

\* b = make([]byte, n); binary.Read(r, binary.LittleEndian, &b): on an error
\* b keeps its n zero bytes
ReadBytes(s, n) ==
    LET r == ReadFull(s, n)
    IN  [err |-> r.err, val |-> IF r.err = Nil THEN r.bytes ELSE Zeros(n),
         rest |-> r.rest]

\* make([]byte, n) with n < 0 panics (makeslice: len out of range)
Panic == [err |-> "panic"]

(***************************************************************************)
(* The encoders.                                                           *)
(***************************************************************************)
CommandSet(k, v, ttl) == [kind |-> "set", key |-> k, value |-> v, ttl |-> ttl]
CommandGet(k) == [kind |-> "get", key |-> k]
CommandJoin == [kind |-> "join"]
ResponseSet(st) == [kind |-> "setack", status |-> st]
ResponseGet(st, v) == [kind |-> "getres", status |-> st, value |-> v]

\* (c *CommandSet) Bytes
CommandSetBytes(c) ==
    <<CmdSet>> \o PutInt32(ToInt32(Len(c.key))) \o c.key
               \o PutInt32(ToInt32(Len(c.value))) \o c.value
               \o PutInt32(ToInt32(c.ttl))

\* (c *CommandGet) Bytes
CommandGetBytes(c) == <<CmdGet>> \o PutInt32(ToInt32(Len(c.key))) \o c.key

\* Join has no Bytes method: dialLeader writes the tag alone
CommandJoinBytes == <<CmdJoin>>

CommandBytes(c) ==
    IF c.kind = "set" THEN CommandSetBytes(c)
    ELSE IF c.kind = "get" THEN CommandGetBytes(c)
    ELSE CommandJoinBytes

\* (r ResponseSet) Bytes
ResponseSetBytes(r) == <<r.status>>

\* a faulty encoder, which leaves the value out
ResponseGetBytes_NoValue(r) == <<r.status>> \o PutInt32(ToInt32(Len(r.value)))
\* (r *ResponseGet) Bytes
ResponseGetBytes(r) ==
    <<r.status>> \o PutInt32(ToInt32(Len(r.value))) \o r.value

(***************************************************************************)
(* The decoders. Each returns what it parsed, its error, and the stream    *)
(* after it.                                                               *)
(***************************************************************************)
\* parseSetCommand: no read's error is looked at
parseSetCommand(s) ==
    LET keyLen == ReadInt32(s)
    IN  IF keyLen.val < 0 THEN Panic
        ELSE
        LET key == ReadBytes(keyLen.rest, keyLen.val)
            valueLen == ReadInt32(key.rest)
        IN  IF valueLen.val < 0 THEN Panic
            ELSE
            LET value == ReadBytes(valueLen.rest, valueLen.val)
                ttl == ReadInt32(value.rest)
            IN  [err |-> Nil, cmd |-> CommandSet(key.val, value.val, ttl.val),
                 rest |-> ttl.rest]

\* parseGetCommand
parseGetCommand(s) ==
    LET keyLen == ReadInt32(s)
    IN  IF keyLen.val < 0 THEN Panic
        ELSE
        LET key == ReadBytes(keyLen.rest, keyLen.val)
        IN  [err |-> Nil, cmd |-> CommandGet(key.val), rest |-> key.rest]

\* ParseCommand
ParseCommand(s) ==
    LET cmd == ReadByte(s)
    IN  IF cmd.err # Nil THEN [err |-> cmd.err, cmd |-> NoMsg, rest |-> cmd.rest]
        ELSE IF cmd.val = CmdSet THEN parseSetCommand(cmd.rest)
        ELSE IF cmd.val = CmdGet THEN parseGetCommand(cmd.rest)
        ELSE IF cmd.val = CmdJoin
             THEN [err |-> Nil, cmd |-> CommandJoin, rest |-> cmd.rest]
        ELSE [err |-> "invalid command", cmd |-> NoMsg, rest |-> cmd.rest]

\* ParseSetResponse: the response is returned with the error
ParseSetResponse(s) ==
    LET status == ReadByte(s)
    IN  [err |-> status.err, cmd |-> ResponseSet(status.val), rest |-> status.rest]

\* ParseGetResponse: returns at the first read that fails
ParseGetResponse(s) ==
    LET status == ReadByte(s)
    IN  IF status.err # Nil
        THEN [err |-> status.err, cmd |-> ResponseGet(0, <<>>), rest |-> status.rest]
        ELSE
        LET valueLen == ReadInt32(status.rest)
        IN  IF valueLen.err # Nil
            THEN [err |-> valueLen.err, cmd |-> ResponseGet(status.val, <<>>),
                  rest |-> valueLen.rest]
            ELSE IF valueLen.val < 0 THEN Panic
            ELSE
            LET value == ReadBytes(valueLen.rest, valueLen.val)
            IN  [err |-> value.err, cmd |-> ResponseGet(status.val, value.val),
                 rest |-> value.rest]

(***************************************************************************)
(* The codec on its own: a command or a response is encoded onto a stream, *)
(* other bytes follow it, and the decoder reads the stream.                *)
(***************************************************************************)
Commands ==
    {CommandSet(k, v, ttl) : k \in BytesUpTo(MaxLen), v \in BytesUpTo(MaxLen),
                             ttl \in TTLVals}
    \cup {CommandGet(k) : k \in BytesUpTo(MaxLen)}
    \cup {CommandJoin}
Responses ==
    {ResponseSet(st) : st \in Statuses}
    \cup {ResponseGet(st, v) : st \in Statuses, v \in BytesUpTo(MaxLen)}

IsCommand(m) == m.kind \in {"set", "get", "join"}

CodecInit ==
    /\ StoreInit
    /\ msg \in Commands \cup Responses
    /\ tail \in Tails
    /\ wire = <<>>
    /\ dec = NoDec
    /\ ServerIdle

\* conn.Write(cmd.Bytes()), and the bytes that follow
WriteCommand ==
    /\ IsCommand(msg) /\ wire = <<>> /\ dec = NoDec
    /\ wire' = CommandBytes(msg) \o tail
    /\ UNCHANGED <<store, msg, tail, dec, srv>>

\* conn.Write(resp.Bytes()), and the bytes that follow
WriteResponse ==
    /\ ~IsCommand(msg) /\ wire = <<>> /\ dec = NoDec
    /\ wire' = (IF msg.kind = "setack" THEN ResponseSetBytes(msg)
                ELSE ResponseGetBytes(msg)) \o tail
    /\ UNCHANGED <<store, msg, tail, dec, srv>>

\* the stream after a decoder returned r: a panic leaves nothing to read
After(r) == IF r.err = "panic" THEN <<>> ELSE r.rest

\* proto.ParseCommand(conn)
ReadCommand ==
    /\ IsCommand(msg) /\ wire # <<>> /\ dec = NoDec
    /\ dec' = ParseCommand(wire)
    /\ wire' = After(ParseCommand(wire))
    /\ UNCHANGED <<store, msg, tail, srv>>

\* proto.ParseSetResponse(c.conn)
ReadSetResponse ==
    /\ msg.kind = "setack" /\ wire # <<>> /\ dec = NoDec
    /\ dec' = ParseSetResponse(wire)
    /\ wire' = After(ParseSetResponse(wire))
    /\ UNCHANGED <<store, msg, tail, srv>>

\* proto.ParseGetResponse(c.conn)
ReadGetResponse ==
    /\ msg.kind = "getres" /\ wire # <<>> /\ dec = NoDec
    /\ dec' = ParseGetResponse(wire)
    /\ wire' = After(ParseGetResponse(wire))
    /\ UNCHANGED <<store, msg, tail, srv>>

CodecNext ==
    \/ WriteCommand
    \/ WriteResponse
    \/ ReadCommand
    \/ ReadSetResponse
    \/ ReadGetResponse

SpecCodec == CodecInit /\ [][CodecNext]_vars

(***************************************************************************)
(* The server (example/server.go): one process, its store, and the         *)
(* connections it accepted. The remote end of a connection writes frames   *)
(* and closes; the server reads the bytes as its decoders ask for them.    *)
(***************************************************************************)
\* bounds of the server model: the remote ends write and close MaxSends
\* times in all, and a key or a value of more than MaxAlloc bytes is not
\* followed
MaxSends == 3
MaxAlloc == 1

Min(a, b) == IF a <= b THEN a ELSE b
Max(a, b) == IF a >= b THEN a ELSE b

\* string(key): the bytes as a string, two hexadecimal digits a byte. The
\* store keeps a value, a []byte, the same way.
HexDigit == <<"0", "1", "2", "3", "4", "5", "6", "7",
              "8", "9", "a", "b", "c", "d", "e", "f">>
RECURSIVE StrOf(_)
StrOf(b) ==
    IF b = <<>> THEN ""
    ELSE HexDigit[(Head(b) \div 16) + 1] \o HexDigit[(Head(b) % 16) + 1]
         \o StrOf(Tail(b))

\* the frames a remote end writes: the Set, Get and Join commands, the
\* SetAck{OK} of a peer (one byte: a Set cut after its tag too), a Get
\* with the key length -1, and the tags 0 and 3. No Set has a ttl > 0: the
\* expiry goroutines are the matter of Spec.
InFrames ==
    {CommandSetBytes(CommandSet(<<1>>, <<1>>, 0)),
     CommandSetBytes(CommandSet(<<1>>, <<2>>, 0)),
     CommandGetBytes(CommandGet(<<1>>)),
     CommandJoinBytes,
     ResponseSetBytes(ResponseSet(StatusOK)),
     <<CmdGet>> \o PutInt32(-1),
     <<CmdNonce>>,
     <<CmdDel>>}

\* the frame a peer writes of its own: its Join
PeerFrames == {CommandJoinBytes}
\* the remote end of c1 writes any of the frames, that of c2 is a peer
RemoteFrames(c) == IF c = "c1" THEN InFrames ELSE PeerFrames

\* the connections whose remote end writes its Join and, for the rest, the
\* SetAck of the Sets it was forwarded: a byte 1 that comes on one of them
\* is a SetAck{OK}
PeerConns == {c \in Conns : RemoteFrames(c) = PeerFrames}

SrvBytes == {0} \cup UNION {{f[i] : i \in DOMAIN f} : f \in InFrames}
SrvSeqs == UNION {[1..n -> SrvBytes] : n \in 0..MaxAlloc}
SrvKeys == {StrOf(b) : b \in SrvSeqs}
\* the []byte the store keeps as the string s
BytesOf(s) == CHOOSE b \in SrvSeqs : StrOf(b) = s

\* the store NewCache made for the server
ServerStore ==
    /\ data = [k \in SrvKeys |-> Absent]
    /\ lock = [w |-> FALSE, r |-> 0]
    /\ pc = [c \in Callers |-> "idle"]
    /\ op = [c \in Callers |-> NoOp]
    /\ ret = [c \in Callers |-> Nil]
    /\ timers = EmptyBag
    /\ hist = [k \in SrvKeys |-> NoHist]
    /\ msg = NoMsg /\ tail = <<>> /\ wire = <<>> /\ dec = NoDec

\* NewServer, of a leader that is at its accept loop
ServerInit == ServerStore /\ ServerIdle

(***************************************************************************)
(* A connection. st is "free" (not made yet), "dialed" (net.Dial returned  *)
(* it, no handleConn runs on it yet), "open" (handleConn is in its loop)   *)
(* or "closed" (handleConn returned, its deferred conn.Close() ran); rcl:  *)
(* the remote end closed.                                                  *)
(***************************************************************************)
\* a Write on the connection succeeds
Usable(cs, c) == cs[c].st \in {"open", "dialed"} /\ ~cs[c].rcl
\* conn.Write(frame): the frame goes out, or the error is returned
WriteTo(cs, c, f) == IF Usable(cs, c) THEN [cs EXCEPT ![c].out = Append(@, f)] ELSE cs
\* the remote end has one more forwarded Set to answer
Owe(cs, c) == IF Usable(cs, c) THEN [cs EXCEPT ![c].owed = @ + 1] ELSE cs
\* a faulty close, which closes every connection of the server
CloseConn_All(cs, c) ==
    [d \in DOMAIN cs |->
        IF cs[d].st = "open"
        THEN [cs[d] EXCEPT !.st = "closed", !.in = <<>>, !.buf = <<>>, !.owed = 0]
        ELSE cs[d]]
\* the deferred conn.Close() of handleConn
CloseConn(cs, c) ==
    [cs EXCEPT ![c].st = "closed", ![c].in = <<>>, ![c].buf = <<>>, ![c].owed = 0]

(***************************************************************************)
(* The reads of ParseCommand on a connection block until their bytes have  *)
(* come. Scan(b), for the bytes b a ParseCommand call has read so far:     *)
(* missing, the number of bytes its current read still waits for (0: the   *)
(* call returns), and alloc, the longest make([]byte, n) it did.           *)
(***************************************************************************)
ScanGet(s) ==
    LET keyLen == ReadInt32(s)
    IN  IF keyLen.err # Nil THEN [missing |-> 4 - Len(s), alloc |-> 0]
        ELSE IF keyLen.val < 0 THEN [missing |-> 0, alloc |-> 0]
        ELSE [missing |-> Max(0, keyLen.val - Len(keyLen.rest)), alloc |-> keyLen.val]

ScanSet(s) ==
    LET keyLen == ReadInt32(s)
    IN  IF keyLen.err # Nil THEN [missing |-> 4 - Len(s), alloc |-> 0]
        ELSE IF keyLen.val < 0 THEN [missing |-> 0, alloc |-> 0]
        ELSE
        LET key == ReadFull(keyLen.rest, keyLen.val)
        IN  IF key.err # Nil
            THEN [missing |-> keyLen.val - Len(keyLen.rest), alloc |-> keyLen.val]
            ELSE
            LET valueLen == ReadInt32(key.rest)
            IN  IF valueLen.err # Nil
                THEN [missing |-> 4 - Len(key.rest), alloc |-> keyLen.val]
                ELSE IF valueLen.val < 0 THEN [missing |-> 0, alloc |-> keyLen.val]
                ELSE
                LET value == ReadFull(valueLen.rest, valueLen.val)
                    alloc == Max(keyLen.val, valueLen.val)
                IN  IF value.err # Nil
                    THEN [missing |-> valueLen.val - Len(valueLen.rest), alloc |-> alloc]
                    ELSE [missing |-> Max(0, 4 - Len(value.rest)), alloc |-> alloc]

Scan(b) ==
    IF b = <<>> THEN [missing |-> 1, alloc |-> 0]
    ELSE IF Head(b) = CmdSet THEN ScanSet(Tail(b))
    ELSE IF Head(b) = CmdGet THEN ScanGet(Tail(b))
    ELSE [missing |-> 0, alloc |-> 0]

\* the command is within the bounds of the model
Fits(cmd) == cmd.kind = "set" => cmd.ttl <= MaxTTL

(***************************************************************************)
(* Start's accept loop: ln.Accept() and go s.handleConn(conn).             *)
(***************************************************************************)
Accept(c) ==
    /\ ~crashed
    /\ start.at # "start"
    /\ conns[c].st = "free"
    /\ \E i \in DOMAIN AcceptOrder :
          /\ AcceptOrder[i] = c
          /\ \A j \in 1..(i - 1) : conns[AcceptOrder[j]].st # "free"
    /\ conns' = [conns EXCEPT ![c].st = "open"]
    /\ UNCHANGED <<store, codec, start, members, handlers, fans, crashed, sends>>

NewHandler(c, cmd) == [conn |-> c, cmd |-> cmd, pc |-> "start", resp |-> NoMsg]

(***************************************************************************)
(* handleConn: the ParseCommand call of its loop reads on. Its reads take   *)
(* the bytes that have come, up to those they wait for; when the call      *)
(* returns, a panic of make kills the process, an error ends the loop and  *)
(* closes the connection, and a command is given to a new goroutine.       *)
(***************************************************************************)
\* how many of the bytes s that have come the call takes, having read b
RECURSIVE Taken(_, _)
Taken(b, s) ==
    LET k == Min(Scan(b).missing, Len(s))
    IN  IF k = 0 THEN 0
        ELSE k + Taken(b \o SubSeq(s, 1, k), SubSeq(s, k + 1, Len(s)))

\* the bytes the call has read after this read, and those left to come
Got(cn) == cn.buf \o SubSeq(cn.in, 1, Taken(cn.buf, cn.in))
Left(cn) == SubSeq(cn.in, Taken(cn.buf, cn.in) + 1, Len(cn.in))
\* the read found the stream at its end
AtEOF(cn) == cn.in = <<>> /\ cn.rcl
\* the call does not return yet: its read waits for more bytes
Waits(cn) == Scan(Got(cn)).missing > 0 /\ ~AtEOF(cn)

\* handleConn can take a step: bytes came or the stream ended, and what the
\* call returns is within the bounds of the model
ConnReady(c) ==
    /\ ~crashed
    /\ conns[c].st = "open"
    /\ conns[c].in # <<>> \/ conns[c].rcl
    /\ \/ Waits(conns[c])
       \/ /\ Scan(Got(conns[c])).alloc <= MaxAlloc
          /\ ParseCommand(Got(conns[c])).err = Nil
                => Fits(ParseCommand(Got(conns[c])).cmd)

handleConn(c) ==
    /\ ConnReady(c)
    /\ LET cn == conns[c]
           r == ParseCommand(Got(cn))
           next == [conns EXCEPT ![c].buf = <<>>, ![c].in = Left(cn)]
       IN  IF Waits(cn)
           THEN /\ conns' = [conns EXCEPT ![c].buf = Got(cn), ![c].in = Left(cn)]
                /\ UNCHANGED <<handlers, crashed>>
           ELSE IF r.err = "panic"
           THEN /\ crashed' = TRUE
                /\ conns' = next
                /\ UNCHANGED handlers
           ELSE IF r.err # Nil
           THEN /\ conns' = CloseConn(conns, c)
                /\ UNCHANGED <<handlers, crashed>>
           ELSE /\ handlers' = handlers (+) One(NewHandler(c, r.cmd))
                /\ conns' = next
                /\ UNCHANGED crashed
    /\ UNCHANGED <<store, codec, start, members, fans, sends>>

(***************************************************************************)
(* The fan-out goroutine of handleSetCommand. pc is "new" (not at its      *)
(* range yet), "iter" (between two members) or "wait" (in member.Set, at   *)
(* ParseSetResponse on the connection at); todo counts, per connection,    *)
(* the members the range has still to produce; history: sent, the Set     *)
(* frames this goroutine wrote on it, due, the members there were when the *)
(* Set was handled, and from, the connection the Set came on.              *)
(***************************************************************************)
NewFan(h) ==
    [cmd |-> h.cmd, pc |-> "new", at |-> "none",
     todo |-> [c \in Conns |-> 0], sent |-> [c \in Conns |-> 0],
     due |-> members, from |-> h.conn]

\* the range is over: the goroutine ends
Done(f) == f.pc = "iter" /\ \A c \in Conns : f.todo[c] = 0

PutFan(fs, f, g) == (fs (-) One(f)) (+) (IF Done(g) THEN EmptyBag ELSE One(g))

\* handleSetCommand: go func() { for member := range s.members ... }()
SetForward(h) ==
    /\ ~crashed
    /\ h.cmd.kind = "set" /\ h.pc = "start"
    /\ fans' = fans (+) One(NewFan(h))
    /\ handlers' = (handlers (-) One(h)) (+) One([h EXCEPT !.pc = "store"])
    /\ UNCHANGED <<store, codec, start, conns, members, crashed, sends>>

\* for member := range s.members: the range begins
FanStart(f) ==
    /\ ~crashed
    /\ f.pc = "new"
    /\ fans' = PutFan(fans, f, [f EXCEPT !.pc = "iter", !.todo = members])
    /\ UNCHANGED <<store, codec, start, conns, members, handlers, crashed, sends>>

\* member.Set, to its Write: c.conn.Write(cmd.Bytes()); on an error Set
\* returns, the error is logged and the range goes on
FanSend(f, m) ==
    /\ ~crashed
    /\ f.pc = "iter" /\ f.todo[m] > 0
    /\ conns' = Owe(WriteTo(conns, m, CommandSetBytes(f.cmd)), m)
    /\ fans' = PutFan(fans, f,
                      IF Usable(conns, m)
                      THEN [f EXCEPT !.pc = "wait", !.at = m,
                                     !.todo[m] = @ - 1, !.sent[m] = @ + 1]
                      ELSE [f EXCEPT !.todo[m] = @ - 1])
    /\ UNCHANGED <<store, codec, start, members, handlers, crashed, sends>>

\* member.Set, from proto.ParseSetResponse(c.conn): the read takes the next
\* byte of the connection, or fails when the connection is closed; whatever
\* the status or the error, the range goes on
FanAck(f) ==
    /\ ~crashed
    /\ f.pc = "wait"
    /\ LET cn == conns[f.at]
       IN  /\ cn.in # <<>> \/ cn.rcl \/ cn.st = "closed"
           /\ conns' = [conns EXCEPT ![f.at].in = ParseSetResponse(cn.in).rest]
    /\ fans' = PutFan(fans, f, [f EXCEPT !.pc = "iter", !.at = "none"])
    /\ UNCHANGED <<store, codec, start, members, handlers, crashed, sends>>

(***************************************************************************)
(* handleSetCommand after the go statement: s.cache.Set, which never       *)
(* fails, and the reply.                                                   *)
(***************************************************************************)
SetStore(h) ==
    /\ ~crashed
    /\ h.cmd.kind = "set" /\ h.pc = "store"
    /\ CanLock(lock)
    /\ h.cmd.ttl > 0 => BagCardinality(timers) < MaxTimers
    /\ LET k == StrOf(h.cmd.key)
           v == StrOf(h.cmd.value)
       IN  /\ data' = MapSet(data, k, v)
           /\ timers' = Spawn(timers, k, h.cmd.ttl)
           /\ hist' = [hist EXCEPT ![k] = HistSet(@, k, v)]
    /\ handlers' = (handlers (-) One(h))
                   (+) One([h EXCEPT !.pc = "reply", !.resp = ResponseSet(StatusOK)])
    /\ UNCHANGED <<lock, pc, op, ret, codec, start, conns, members, fans, crashed, sends>>

\* a faulty reply, which answers a key that is present with an error too
GetReply_AlwaysError(v) == ResponseGet(StatusError, <<>>)
\* handleGetCommand: the response to what s.cache.Get returned
GetReply(v) ==
    IF v = NotFound THEN ResponseGet(StatusError, <<>>)
    ELSE ResponseGet(StatusOK, BytesOf(v))

\* handleGetCommand: s.cache.Get
GetStore(h) ==
    /\ ~crashed
    /\ h.cmd.kind = "get" /\ h.pc = "start"
    /\ CanRLock(lock)
    /\ handlers' = (handlers (-) One(h))
                   (+) One([h EXCEPT !.pc = "reply",
                                     !.resp = GetReply(MapGet(data, StrOf(h.cmd.key)))])
    /\ UNCHANGED <<store, codec, start, conns, members, fans, crashed, sends>>

ResponseBytes(r) ==
    IF r.kind = "setack" THEN ResponseSetBytes(r) ELSE ResponseGetBytes(r)

\* a faulty handler, which replies once every fan-out goroutine has ended
CanReply_AfterFanout(h) == h.pc = "reply" /\ fans = EmptyBag
\* the handler is at its conn.Write(resp.Bytes())
CanReply(h) == h.pc = "reply"

\* handleSetCommand, handleGetCommand: conn.Write(resp.Bytes()); the error
\* is returned to handleCommand, which drops it
Reply(h) ==
    /\ ~crashed
    /\ CanReply(h)
    /\ conns' = WriteTo(conns, h.conn, ResponseBytes(h.resp))
    /\ handlers' = handlers (-) One(h)
    /\ UNCHANGED <<store, codec, start, members, fans, crashed, sends>>

\* a faulty Join, which adds every open connection
AddMember_AllOpen(ms, c) ==
    [d \in DOMAIN ms |-> IF d = c \/ conns[d].st = "open" THEN ms[d] + 1 ELSE ms[d]]
\* s.members[client.NewFromConn(conn)] = struct{}{}: a new *client.Client
\* is a new key of the map
AddMember(ms, c) == [ms EXCEPT ![c] = @ + 1]

(***************************************************************************)
(* handleJoinCommand: the new member, which a range in progress produces   *)
(* or skips.                                                               *)
(***************************************************************************)
handleJoinCommand(h) ==
    /\ ~crashed
    /\ h.cmd.kind = "join" /\ h.pc = "start"
    /\ members' = AddMember(members, h.conn)
    /\ \E F \in SUBSET {f \in DOMAIN fans : f.pc # "new"} :
          fans' = MapTimers([f \in DOMAIN fans |->
                                IF f \in F THEN [f EXCEPT !.todo[h.conn] = @ + 1] ELSE f],
                            fans, DOMAIN fans)
    /\ handlers' = handlers (-) One(h)
    /\ UNCHANGED <<store, codec, start, conns, crashed, sends>>

(***************************************************************************)
(* s.members is a plain map that no lock guards. The write of a Join       *)
(* handler races with the range of a fan-out goroutine that has begun and  *)
(* not ended, and with the write of another Join handler that runs at the  *)
(* same time. The Go runtime may catch the race ("fatal error: concurrent  *)
(* map iteration and map write", "concurrent map writes"), which ends the  *)
(* process, or miss it: then the write is that of handleJoinCommand.       *)
(***************************************************************************)
Racing(h) ==
    \/ \E f \in DOMAIN fans : f.pc # "new"
    \/ \E g \in DOMAIN handlers :
          /\ g.cmd.kind = "join" /\ g.pc = "start"
          /\ g # h \/ handlers[h] > 1

MapFault(h) ==
    /\ ~crashed
    /\ h.cmd.kind = "join" /\ h.pc = "start"
    /\ Racing(h)
    /\ crashed' = TRUE
    /\ UNCHANGED <<store, codec, start, conns, members, handlers, fans, sends>>

(***************************************************************************)
(* The remote end of a connection writes a frame, answers, or closes.      *)
(***************************************************************************)
RemoteWrite(c, f) ==
    /\ ~crashed
    /\ f \in RemoteFrames(c)
    /\ sends < MaxSends
    /\ Usable(conns, c)
    /\ conns' = [conns EXCEPT ![c].in = @ \o f]
    /\ sends' = sends + 1
    /\ UNCHANGED <<store, codec, start, members, handlers, fans, crashed>>

\* the remote end, a server that was forwarded a Set, writes the reply of
\* its handleSetCommand: SetAck{OK}
RemoteAck(c) ==
    /\ ~crashed
    /\ Usable(conns, c)
    /\ conns[c].owed > 0
    /\ conns' = [conns EXCEPT ![c].in = @ \o ResponseSetBytes(ResponseSet(StatusOK)),
                              ![c].owed = @ - 1]
    /\ UNCHANGED <<store, codec, start, members, handlers, fans, crashed, sends>>

RemoteClose(c) ==
    /\ ~crashed
    /\ Usable(conns, c)
    /\ sends < MaxSends
    /\ conns' = [conns EXCEPT ![c].rcl = TRUE, ![c].owed = 0]
    /\ sends' = sends + 1
    /\ UNCHANGED <<store, codec, start, members, handlers, fans, crashed>>

\* the steps of the goroutines of the server process, but for handleConn
GoStep ==
    \/ \E c \in Conns : Accept(c)
    \/ \E h \in DOMAIN handlers : SetForward(h)
    \/ \E h \in DOMAIN handlers : SetStore(h)
    \/ \E h \in DOMAIN handlers : GetStore(h)
    \/ \E h \in DOMAIN handlers : Reply(h)
    \/ \E h \in DOMAIN handlers : handleJoinCommand(h)
    \/ \E f \in DOMAIN fans : FanStart(f)
    \/ \E f \in DOMAIN fans, m \in Conns : FanSend(f, m)
    \/ \E f \in DOMAIN fans : FanAck(f)

ServerNext ==
    \/ GoStep
    \/ \E c \in Conns : handleConn(c)
    \/ \E h \in DOMAIN handlers : MapFault(h)
    \/ \E c \in Conns, f \in InFrames : RemoteWrite(c, f)
    \/ \E c \in Conns : RemoteAck(c)
    \/ \E c \in Conns : RemoteClose(c)

SpecServer == ServerInit /\ [][ServerNext]_vars

\* the Go scheduler runs every goroutine that can run: the weak fairness
\* of the steps of the process, that of handleConn written out with
\* ConnReady, which is when it can take a step
SpecServerFair ==
    /\ ServerInit /\ [][ServerNext]_vars
    /\ WF_vars(GoStep)
    /\ \/ []<>(\A c \in Conns : ~ConnReady(c))
       \/ []<><<\E c \in Conns : handleConn(c)>>_vars

(***************************************************************************)
(* Start and dialLeader. A server that is no leader and has the address of *)
(* a leader dials it in a goroutine of its own, writes the Join tag on the *)
(* connection and then runs handleConn on it.                              *)
(***************************************************************************)
LeaderAddrs == {"", ":3000"}
StartOpts == {Started(l, a) : l \in BOOLEAN, a \in LeaderAddrs}

\* a faulty Start, which dials whatever its options
ShouldDial_Always(o) == TRUE
\* Start: !s.IsLeader && len(s.LeaderAddr) != 0
ShouldDial(o) == ~o.IsLeader /\ o.LeaderAddr # ""

\* Start, from net.Listen to its accept loop
Start ==
    /\ ~crashed
    /\ start.at = "start"
    /\ start' = [start EXCEPT !.at = IF ShouldDial(start) THEN "dial" ELSE "listen"]
    /\ UNCHANGED <<store, codec, conns, members, handlers, fans, crashed, sends>>

\* dialLeader: net.Dial returns a connection
Dial(c) ==
    /\ ~crashed
    /\ start.at = "dial"
    /\ conns[c].st = "free"
    /\ \E i \in DOMAIN AcceptOrder :
          /\ AcceptOrder[i] = c
          /\ \A j \in 1..(i - 1) : conns[AcceptOrder[j]].st # "free"
    /\ conns' = [conns EXCEPT ![c].st = "dialed"]
    /\ start' = [start EXCEPT !.at = "join", !.conn = c]
    /\ UNCHANGED <<store, codec, members, handlers, fans, crashed, sends>>

\* dialLeader: net.Dial returns an error, and so does dialLeader
DialFails ==
    /\ ~crashed
    /\ start.at = "dial"
    /\ start' = [start EXCEPT !.at = "failed"]
    /\ UNCHANGED <<store, codec, conns, members, handlers, fans, crashed, sends>>

\* dialLeader: binary.Write(conn, binary.LittleEndian, proto.CmdJoin), and
\* s.handleConn(conn) when it wrote; on its error dialLeader returns, and
\* nothing closes the connection
WriteJoin ==
    /\ ~crashed
    /\ start.at = "join"
    /\ IF Usable(conns, start.conn)
       THEN /\ conns' = [WriteTo(conns, start.conn, CommandJoinBytes)
                            EXCEPT ![start.conn].st = "open"]
            /\ start' = [start EXCEPT !.at = "loop"]
       ELSE /\ start' = [start EXCEPT !.at = "failed"]
            /\ UNCHANGED conns
    /\ UNCHANGED <<store, codec, members, handlers, fans, crashed, sends>>

StartStep == Start \/ (\E c \in Conns : Dial(c)) \/ DialFails \/ WriteJoin

StartInit == ServerStore /\ NoPeers /\ start \in StartOpts

StartNext ==
    \/ StartStep
    \/ ServerNext

SpecStart == StartInit /\ [][StartNext]_vars

(***************************************************************************)
(* The server with a client of package client at the remote end of c1:     *)
(* Client.Set and Client.Get write a command and wait for its response, so *)
(* the client writes a command only when it has the response to the one    *)
(* before. The remote end of c2 is a peer.                                 *)
(***************************************************************************)
ClientFrames ==
    {CommandSetBytes(CommandSet(<<1>>, <<1>>, 0)),
     CommandSetBytes(CommandSet(<<1>>, <<2>>, 0)),
     CommandGetBytes(CommandGet(<<1>>))}

\* the server has read and answered all that came on c
Answered(c) ==
    /\ conns[c].in = <<>> /\ conns[c].buf = <<>>
    /\ \A h \in DOMAIN handlers : h.conn # c

\* Client.Set, Client.Get: c.conn.Write(cmd.Bytes()), once the call before
\* has returned
ClientCall(c, f) ==
    /\ f \in ClientFrames
    /\ Answered(c)
    /\ RemoteWrite(c, f)

ClientNext ==
    \/ GoStep
    \/ \E c \in Conns : handleConn(c)
    \/ \E h \in DOMAIN handlers : MapFault(h)
    \/ \E f \in ClientFrames : ClientCall("c1", f)
    \/ \E c \in PeerConns, f \in PeerFrames : RemoteWrite(c, f)
    \/ \E c \in Conns : RemoteAck(c)
    \/ \E c \in Conns : RemoteClose(c)

SpecClient == ServerInit /\ [][ClientNext]_vars

(***************************************************************************)
(* What the statements about the store speak of.                           *)
(***************************************************************************)
\* the caller c is returning from kind(k): the body ran, the lock is held
Returning(c, kind, k) == pc[c] = "ret" /\ op[c].kind = kind /\ op[c].key = k
\* the last set, delete or expiry of its own entry on k is a set
LastSet(k) == hist[k].kind \in {"set", "stale"}
\* the goroutine of the last set on k is in state st
OwnTimer(k, st) == \E t \in DOMAIN timers : t.key = k /\ t.cur /\ t.st = st
\* no expiry goroutine is alive for k
NoTimerOn(k) == \A t \in DOMAIN timers : t.key # k
Writers ==
    Cardinality({c \in Callers : pc[c] = "ret" /\ IsWrite(op[c])})
    + BagCardinality([t \in {x \in DOMAIN timers : x.st = "del"} |-> timers[t]])
Readers == Cardinality({c \in Callers : pc[c] = "ret" /\ ~IsWrite(op[c])})

(***************************************************************************)
(* C1. After set(k, v, T) with T > 0, a get(k) before T has elapsed        *)
(* returns v when no set(k) or delete(k) came later, whatever ran on k     *)
(* before (an earlier set(k) with a shorter ttl included).                 *)
(***************************************************************************)
C1_FreshBeforeExpiry ==
    \A c \in Callers, k \in Keys :
        Returning(c, "get", k) /\ LastSet(k) /\ OwnTimer(k, "sleep")
            => ret[c] = hist[k].value

(***************************************************************************)
(* C2. Once the ttl T > 0 of the last set(k, v, T) has elapsed, no get(k)  *)
(* returns v and no has(k) returns true, also while the removal that set   *)
(* scheduled has woken and not yet taken the lock.                         *)
(***************************************************************************)
C2_NoReadPastTTL ==
    [][\A c \in Callers, k \in Keys :
          LastSet(k) /\ OwnTimer(k, "fired")
              => /\ Get(c, k) => ret'[c] # hist[k].value
                 /\ Has(c, k) => ret'[c] # True]_vars

(***************************************************************************)
(* C3. The removal scheduled by a set(k, v1, ttl > 0) does not delete what *)
(* a later set(k, v2, ttl2) stored: when the old goroutine runs, the entry *)
(* of k is as it was (so an entry stored with ttl = 0 stays).              *)
(***************************************************************************)
C3_StaleRemovalSparesNewer ==
    [][\A t \in DOMAIN timers :
          Expire(t) /\ ~t.cur => data'[t.key] = data[t.key]]_vars

(***************************************************************************)
(* C4. A key is present in the store exactly when a set(k) took effect and *)
(* neither a delete(k) nor the expiry of that last entry took effect       *)
(* since.                                                                  *)
(***************************************************************************)
C4_StorePresence ==
    \A k \in Keys : (data[k] # Absent) <=> LastSet(k)

(***************************************************************************)
(* C5. set(k, v1, 0), then set(k, v2, 0), then get(k): the get returns v2  *)
(* and no error.                                                           *)
(***************************************************************************)
C5_Overwrite ==
    \A c \in Callers, k \in Keys :
        /\ Returning(c, "get", k)
        /\ hist[k].kind = "set" /\ NoTimerOn(k) /\ hist[k].prev # Absent
        => ret[c] = hist[k].value /\ ret[c] # NotFound

C5_Witness ==
    \E c \in Callers, k \in Keys :
        /\ Returning(c, "get", k)
        /\ hist[k].kind = "set" /\ NoTimerOn(k) /\ hist[k].prev # Absent
        /\ hist[k].prev # hist[k].value
        /\ ret[c] = hist[k].value

(***************************************************************************)
(* C6. delete(k) returns no error whether or not k is present, and leaves  *)
(* every other key as it was; after it, until the next set(k), get(k)      *)
(* reports not found and has(k) is false.                                  *)
(***************************************************************************)
\* the step is the body of a delete(k) of the caller c
DeleteStep(c, k) == pc[c] = "idle" /\ Returning(c, "delete", k)'

C7_NoLostUpdate ==
    \A c \in Callers, k \in Keys :
        Returning(c, "get", k) /\ hist[k].kind = "set" /\ NoTimerOn(k)
            => ret[c] = hist[k].value

\* two keys hold different values, set with ttl = 0, and two callers are
\* reading one each
C7_Witness ==
    \E c, d \in Callers, k, j \in Keys :
        /\ k # j /\ c # d
        /\ hist[k].kind = "set" /\ hist[j].kind = "set"
        /\ timers = EmptyBag
        /\ hist[k].value # hist[j].value
        /\ Returning(c, "get", k) /\ ret[c] = hist[k].value
        /\ Returning(d, "get", j) /\ ret[d] = hist[j].value

(***************************************************************************)
(* C8. set, delete and the expiry removal run alone in the store; get and  *)
(* has overlap only with get and has.                                      *)
(***************************************************************************)
C8_LockDiscipline ==
    /\ Writers <= 1
    /\ Writers = 1 => Readers = 0
    /\ lock.w <=> Writers = 1
    /\ lock.r = Readers

\* two reads overlap
C8_Witness == Readers = 2 /\ \E t \in DOMAIN timers : t.st = "fired"

(***************************************************************************)
(* C9. Decoding the frame of a Set{key, value, ttl}, Get{key} or Join{}    *)
(* command (any key and value, the empty ones too, any int32 ttl) returns  *)
(* no error and the command that was encoded, and reads the bytes of that  *)
(* frame and no more.                                                      *)
(***************************************************************************)
C9_CommandRoundTrip ==
    IsCommand(msg) /\ dec # NoDec
        => dec.err = Nil /\ dec.cmd = msg /\ wire = tail

\* a Set with a key, an empty value and a negative ttl was decoded with
\* bytes following its frame
C9_Witness ==
    /\ msg.kind = "set" /\ dec # NoDec
    /\ msg.key # <<>> /\ msg.value = <<>> /\ msg.ttl < 0
    /\ tail # <<>>
    /\ dec.cmd = msg

(***************************************************************************)
(* C10. ParseSetResponse and ParseGetResponse, applied to the bytes of a   *)
(* SetAck{status} or GetResult{status, value} (any of the four statuses,   *)
(* any value, the empty one too), return no error and the response that    *)
(* was encoded.                                                            *)
(***************************************************************************)
C10_ResponseRoundTrip ==
    ~IsCommand(msg) /\ dec # NoDec
        => dec.err = Nil /\ dec.cmd = msg

\* a GetResult with a status other than OK and a value was decoded
C10_Witness ==
    /\ msg.kind = "getres" /\ dec # NoDec
    /\ msg.status = StatusKeyNotFound /\ msg.value # <<>>
    /\ dec.cmd = msg

(***************************************************************************)
(* What the statements about the server speak of.                          *)
(***************************************************************************)
\* a handleCommand goroutine of a command of the kind is alive on c
Pending(c, kind) == \E h \in DOMAIN handlers : h.conn = c /\ h.cmd.kind = kind
\* the frames written on c
Out(c) == {conns[c].out[i] : i \in DOMAIN conns[c].out}
\* the step ends the handleConn of c
ConnEnds(c) == conns[c].st = "open" /\ conns'[c].st = "closed"
\* the stream of c ended within a Set or a Get frame, of which handleConn
\* read the tag
Truncated(c) ==
    /\ conns[c].st = "open" /\ conns[c].rcl /\ conns[c].in = <<>>
    /\ conns[c].buf # <<>> /\ Scan(conns[c].buf).missing > 0
\* the fan-out goroutine has not written its Set on the open connection m,
\* which was a member when the Set was handled
Unsent(f, m) == f.due[m] > 0 /\ f.sent[m] = 0 /\ Usable(conns, m)

(***************************************************************************)
(* C11. A Get for a key that is not in the store is answered with          *)
(* GetResult{KeyNotFound} and an empty value: the handler of a Get has no  *)
(* response other than OK and that one (the store fails in no other way).  *)
(***************************************************************************)
C11_MissingKeyNotFound ==
    \A h \in DOMAIN handlers :
        h.cmd.kind = "get" /\ h.pc = "reply" /\ h.resp.status # StatusOK
            => h.resp = ResponseGet(StatusKeyNotFound, <<>>)

(***************************************************************************)
(* C12. The handler of a Set writes SetAck{OK} on the connection of the    *)
(* Set; a Get of k that reads the store while the last write on k is a set *)
(* of v (no expiry goroutine alive on k) gets GetResult{OK, v}, and the    *)
(* handler writes that response on the connection of the Get.              *)
(***************************************************************************)
C12_SetThenGet ==
    [][\A h \in DOMAIN handlers :
          LET k == StrOf(h.cmd.key)
          IN  /\ Reply(h) /\ Usable(conns, h.conn)
                  => conns'[h.conn].out =
                        Append(conns[h.conn].out,
                               IF h.cmd.kind = "set"
                               THEN ResponseSetBytes(ResponseSet(StatusOK))
                               ELSE ResponseGetBytes(h.resp))
              /\ GetStore(h) /\ hist[k].kind = "set" /\ NoTimerOn(k)
                  => \E v \in SrvSeqs :
                        /\ StrOf(v) = hist[k].value
                        /\ handlers' = (handlers (-) One(h))
                              (+) One([h EXCEPT !.pc = "reply",
                                                !.resp = ResponseGet(StatusOK, v)])]_vars

\* on c1 a Set of the value 2 was answered SetAck{OK}, and then a Get
\* GetResult{OK, 2}
C12_Witness ==
    /\ hist[StrOf(<<1>>)].kind = "set"
    /\ conns["c1"].out = <<ResponseSetBytes(ResponseSet(StatusOK)),
                           ResponseGetBytes(ResponseGet(StatusOK, <<2>>))>>

(***************************************************************************)
(* C13. The Set a server handles is in the end written to every connection *)
(* that is a member when the Set is handled, whether the peers answer or   *)
(* not: while the process lives, from some moment on no fan-out goroutine  *)
(* has its Set left to write on an open connection that was a member then. *)
(***************************************************************************)
C13_FanoutDelivery ==
    <>[](crashed \/ \A f \in DOMAIN fans, m \in Conns : ~Unsent(f, m))

(***************************************************************************)
(* C14. The forward of a Set to a peer waits on no other peer: no fan-out  *)
(* goroutine waits for the answer of one peer while it has still to write  *)
(* its Set on the open connection of another peer, a member when the Set   *)
(* was handled.                                                            *)
(***************************************************************************)
C14_ForwardWaitsOnNoPeer ==
    \A f \in DOMAIN fans :
        f.pc = "wait" => \A m \in Conns \ {f.at} : ~Unsent(f, m)

(***************************************************************************)
(* C15. The reply to a Set is SetAck{OK}, the store's set having           *)
(* succeeded, written on the connection of the Set when that is open; and  *)
(* while the process lives the handler of a Set comes to its reply,        *)
(* whatever the fan-out goroutines do (fail to send, wait for ever).       *)
(***************************************************************************)
C15_ReplyIndependentOfFanout ==
    /\ [][\A h \in DOMAIN handlers :
             Reply(h) /\ h.cmd.kind = "set"
                 => /\ h.resp = ResponseSet(StatusOK)
                    /\ Usable(conns, h.conn)
                        => conns'[h.conn].out =
                              Append(conns[h.conn].out, <<StatusOK>>)]_vars
    /\ \A c \in Conns : Pending(c, "set") ~> (~Pending(c, "set") \/ crashed)

\* the Set of c1 was answered while its fan-out goroutine waits for the
\* answer of the peer c2, which does not come
C15_Witness ==
    /\ handlers = EmptyBag
    /\ <<StatusOK>> \in Out("c1")
    /\ \E f \in DOMAIN fans : f.pc = "wait" /\ f.at = "c2"
    /\ conns["c2"].in = <<>> /\ sends = MaxSends

(***************************************************************************)
(* C16. When the stream ends within a Set or a Get frame, the decoder      *)
(* returns an error: handleConn closes the connection and starts no        *)
(* handler for the partial frame.                                          *)
(***************************************************************************)
C16_TruncatedFrameRejected ==
    [][\A c \in Conns :
          Truncated(c) /\ handleConn(c)
              => handlers' = handlers /\ conns'[c].st = "closed"]_vars

(***************************************************************************)
(* C17. A frame with a negative length never crashes the process.          *)
(***************************************************************************)
C17_NegativeLengthNoCrash == ~crashed

(***************************************************************************)
(* C18. The step that ends the handler of a connection (a decode error,    *)
(* the tags 0 and 3 included, a clean close, a transport error) changes    *)
(* nothing else: the store, the other connections and their handlers, the  *)
(* goroutines, the members are as they were, and the process lives.        *)
(***************************************************************************)
C18_ConnectionIsolation ==
    [][\A c \in Conns :
          ConnEnds(c)
              => /\ data' = data /\ timers' = timers /\ lock' = lock
                 /\ \A d \in Conns \ {c} : conns'[d] = conns[d]
                 /\ handlers' = handlers /\ fans' = fans
                 /\ members' = members
                 /\ ~crashed']_vars

\* c1 was closed for a tag that is no command, its remote end still open;
\* c2, a member, is open, and the process lives
C18_Witness ==
    /\ conns["c1"].st = "closed" /\ ~conns["c1"].rcl
    /\ conns["c2"].st = "open" /\ members["c2"] = 1
    /\ ~crashed

(***************************************************************************)
(* C19. The members change only in the handler of a Join, which adds one   *)
(* member, for the connection the Join came on, and writes nothing.        *)
(***************************************************************************)
C19_MembersChangeOnJoin ==
    [][/\ members' # members => \E h \in DOMAIN handlers : handleJoinCommand(h)
       /\ \A h \in DOMAIN handlers :
             handleJoinCommand(h)
                 => /\ members' = [members EXCEPT ![h.conn] = @ + 1]
                    /\ conns' = conns]_vars

\* c2 joined and closed, its handler ended; a Set was handled since; c2 is
\* still the one member
C19_Witness ==
    /\ members["c2"] = 1 /\ members["c1"] = 0
    /\ conns["c2"].st = "closed" /\ conns["c2"].out = <<>>
    /\ \E k \in SrvKeys : data[k] # Absent

(***************************************************************************)
(* C20. For one Set, a connection is sent at most one forwarded Set frame. *)
(***************************************************************************)
C20_AtMostOnceForward ==
    \A f \in DOMAIN fans, c \in Conns : f.sent[c] <= 1

(***************************************************************************)
(* C21. A forwarded Set{k, v} is written to a peer only after the store's  *)
(* set of k has returned: at every write of a fan-out goroutine on an open *)
(* connection, the store holds the key of its Set (the server removes no   *)
(* key: its Sets here have no ttl and it has no Delete command).           *)
(***************************************************************************)
C21_ForwardAfterStore ==
    [][\A f \in DOMAIN fans, m \in Conns :
          FanSend(f, m) /\ Usable(conns, m)
              => data[StrOf(f.cmd.key)] # Absent]_vars

(***************************************************************************)
(* C22. A server that is no leader and has a leader address opens one      *)
(* connection to the leader and writes the Join tag on it before it reads  *)
(* a command from it: handleConn reads a connection that dialLeader made   *)
(* only when the first frame written on it is the Join tag, and dialLeader *)
(* has no second connection. A leader, and a server with no leader         *)
(* address, never dial: they have no such connection.                      *)
(***************************************************************************)
C22_JoinBeforeRead ==
    [][/\ \A c \in Conns :
             handleConn(c) /\ start.conn = c
                 => conns[c].out # <<>> /\ conns[c].out[1] = CommandJoinBytes
       /\ \A c \in Conns : Dial(c) => start.conn = "none"
       /\ start.IsLeader \/ start.LeaderAddr = ""
             => /\ start'.conn = "none"
                /\ \A c \in Conns : conns'[c].st # "dialed"]_vars

\* the follower read a Set from the connection it made to the leader, on
\* which it wrote its Join before
C22_Witness ==
    /\ ~start.IsLeader /\ start.LeaderAddr # "" /\ start.at = "loop"
    /\ conns[start.conn].out = <<CommandJoinBytes>>
    /\ \E h \in DOMAIN handlers : h.conn = start.conn /\ h.cmd.kind = "set"

(***************************************************************************)
(* C23. A Set that a server received as a forward, on the connection it    *)
(* made to the server it joined, is not forwarded further: the fan-out     *)
(* goroutine of a Set that came on that connection writes on no            *)
(* connection.                                                             *)
(***************************************************************************)
C23_SingleHop ==
    \A f \in DOMAIN fans, m \in Conns :
        f.from = start.conn => f.sent[m] = 0

(***************************************************************************)
(* C24. The members map is never accessed by two goroutines in conflict:   *)
(* no Join handler writes it while the range of a fan-out goroutine is in  *)
(* progress or while another Join handler is at its write, and the         *)
(* process never dies of such an access.                                   *)
(***************************************************************************)
C24_NoMapRace ==
    [][\A h \in DOMAIN handlers :
          /\ handleJoinCommand(h) => ~Racing(h)
          /\ ~MapFault(h)]_vars

(***************************************************************************)
(* C25. On the connection of a joined peer the SetAck the peer writes is   *)
(* read by the fan-out call that sent the Set, never by the decode loop of *)
(* the connection: handleConn, at the tag of a command, never takes the    *)
(* byte of a SetAck{OK} from the connection of a peer.                     *)
(***************************************************************************)
C25_AckReadByItsCall ==
    [][\A c \in PeerConns :
          handleConn(c) /\ conns[c].buf = <<>> /\ conns[c].in # <<>>
              => Head(conns[c].in) # StatusOK]_vars

\* the command of the i-th frame the server wrote on m, and of the last
Forward(m, i) == ParseCommand(conns[m].out[i]).cmd
LastForward(m) == Forward(m, Len(conns[m].out))
\* the leader's store holds the value of the forwarded Set for its key
Current(cmd) == data[StrOf(cmd.key)] = StrOf(cmd.value)

(***************************************************************************)
(* C26. The forwards of the Sets of a key reach a peer in the order the    *)
(* leader applied them. A client sets k to v1, has its ack, then sets k to *)
(* v2: once no handler and no fan-out goroutine is left, a member on an    *)
(* open connection that was forwarded the Set of the value the leader's    *)
(* store holds for k was forwarded it last, after the Sets of the older    *)
(* values.                                                                 *)
(***************************************************************************)
C26_ForwardsInOrder ==
    \A m \in PeerConns :
        /\ handlers = EmptyBag /\ fans = EmptyBag /\ ~crashed
        /\ members[m] > 0 /\ Usable(conns, m)
        /\ \E i \in DOMAIN conns[m].out : Current(Forward(m, i))
        => Current(LastForward(m))

====
